---- MODULE Spec2Model ----
(***************************************************************************)
(* Model of the chipmunk log-session core:                                 *)
(*   - processor/src/grabber.rs : slot index, metadata builder, get_entries *)
(*   - rs-bindings/src/js/session.rs : RustSession, its worker loop and     *)
(*     the channels between the host thread and the worker                  *)
(*   - indexer-neon/native/src/js/grabber_session.rs : the GrabberHolder    *)
(*     that builds its grabber's metadata in a thread of its own            *)
(*                                                                         *)
(* Two groups of variables share the module.  SpecGrabber drives the file   *)
(* level functions (builder loop, identify_slot, get_entries) over every    *)
(* small file; Spec drives the session state machine.                       *)
(***************************************************************************)
EXTENDS Integers, Sequences, FiniteSets, TLC

(***************************************************************************)
(* Bounds of the model                                                      *)
(***************************************************************************)
\* longest file content (in bytes) enumerated by SpecGrabber
MaxFileLen == 4
\* capacity of the builder's read buffer; the code allocates 64 * 1000 bytes
\* (grabber.rs:284), the model scales it down so that files of a few bytes
\* span several slots
READ_BUFFER_SIZE == 3

\* the read buffer the code allocates, grabber.rs:284
READ_BUFFER_BYTES == 64 * 1000

\* grabber.rs:41 (the value the code compares len against at grabber.rs:295;
\* it is larger than the read buffer, in the code and in the model)
DEFAULT_SLOT_SIZE == 64 * 1024

(***************************************************************************)
(* Bytes and files.  A file is a sequence of bytes; only the bytes the code *)
(* distinguishes are modelled: the two separators and payload characters.   *)
(***************************************************************************)
NL == "\n"
CR == "\r"
Payload == {"a"}
Byte == Payload \cup {NL, CR}

Min(a, b) == IF a < b THEN a ELSE b

\* all sequences over S of length exactly n / at most n
RECURSIVE SeqsOfLen(_, _)
SeqsOfLen(S, n) ==
    IF n = 0 THEN {<<>>}
    ELSE {Append(s, x) : s \in SeqsOfLen(S, n - 1), x \in S}

SeqsUpTo(S, n) == UNION {SeqsOfLen(S, k) : k \in 0..n}

(***************************************************************************)
(* Ranges and slots (grabber.rs:43-97)                                      *)
(***************************************************************************)
ByteRange(start, end) == [start |-> start, end |-> end]
LineRange(start, end) == [start |-> start, end |-> end]

\* std::ops::Range::contains
RangeContains(r, x) == r.start <= x /\ x < r.end

Slot(bytes, lines) == [bytes |-> bytes, lines |-> lines]

GrabMetadata(slots, line_count) == [slots |-> slots, line_count |-> line_count]

\* Option<T>: None is the empty sequence, Some(x) the one-element sequence
None == <<>>
Some(x) == <<x>>
IsSome(o) == o # <<>>
Unwrap(o) == o[1]

(***************************************************************************)
(* Metadata builder: Grabber::create_metadata_for_file (grabber.rs:275-321) *)
(* The loop is modelled iteration by iteration; BuilderState is the         *)
(* function's local state.                                                  *)
(***************************************************************************)
\* state after `File::open` succeeded and before the first read
BuilderStart ==
    [ slots           |-> <<>>,
      byte_index      |-> 0,
      processed_lines |-> 0,
      buffer_len      |-> READ_BUFFER_SIZE,
      reads           |-> 0,
      outcome         |-> "Running" ]

\* bytecount::count(&buffer, b'\n')
CountNewlines(bytes) ==
    Cardinality({i \in 1..Len(bytes) : bytes[i] = NL})

\* a per-slot line count that would count terminated lines only
SlotLineCountNewlinesOnly(nl_count) == nl_count

\* per-slot line count, grabber.rs:299
SlotLineCount(nl_count) == nl_count + 1

\* a slot that would restart its line range after the previous slot's last
\* line instead of at the running line counter
NextSlotSkippingALine(b, len, line_count) ==
    Slot(ByteRange(b.byte_index, b.byte_index + len),
         LineRange(b.processed_lines + (IF b.slots = <<>> THEN 0 ELSE 1),
                   b.processed_lines + line_count
                     + (IF b.slots = <<>> THEN 0 ELSE 1)))

\* the slot pushed for a read of len bytes, grabber.rs:300-304
NextSlot(b, len, line_count) ==
    Slot(ByteRange(b.byte_index, b.byte_index + len),
         LineRange(b.processed_lines, b.processed_lines + line_count))

\* the lengths `reader.read(&mut buffer)` may return at the current position:
\* 0 exactly at end of file, otherwise any positive count up to the buffer
ReadLens(b, content) ==
    LET remaining == Len(content) - b.byte_index
    IN  IF remaining = 0 THEN {0}
        ELSE 1..Min(b.buffer_len, remaining)

\* an iteration that would take a read shorter than the buffer for the last
\* one and return after pushing its slot
BuilderIterationShortReadIsLast(b, content, len, stop) ==
    LET counted == [b EXCEPT !.reads = @ + 1]
    IN
    IF stop THEN [counted EXCEPT !.outcome = "Stopped"]
    ELSE IF len = 0 THEN [counted EXCEPT !.outcome = "Item"]
    ELSE
        LET data       == SubSeq(content, b.byte_index + 1, b.byte_index + len)
            line_count == SlotLineCount(CountNewlines(data))
        IN  [ slots           |-> Append(b.slots, NextSlot(b, len, line_count)),
              byte_index      |-> b.byte_index + len,
              processed_lines |-> b.processed_lines + line_count,
              buffer_len      |-> b.buffer_len,
              reads           |-> b.reads + 1,
              outcome         |-> IF len < b.buffer_len THEN "Item"
                                  ELSE "Running" ]

\* one iteration of `while let Ok(len) = reader.read(&mut buffer)` for a read
\* that returned Ok(len); `stop` is check_if_stop_was_requested at that moment
BuilderIteration(b, content, len, stop) ==
    LET counted == [b EXCEPT !.reads = @ + 1]
    IN
    IF stop THEN [counted EXCEPT !.outcome = "Stopped"]
    ELSE IF len = 0 THEN [counted EXCEPT !.outcome = "Item"]
    ELSE
        LET data       == SubSeq(content, b.byte_index + 1, b.byte_index + len)
            nl_count   == CountNewlines(data)
            line_count == SlotLineCount(nl_count)
            slot       == NextSlot(b, len, line_count)
        IN  [ slots           |-> Append(b.slots, slot),
              byte_index      |-> b.byte_index + len,
              processed_lines |-> b.processed_lines + line_count,
              buffer_len      |-> IF len < DEFAULT_SLOT_SIZE THEN len
                                  ELSE b.buffer_len,
              reads           |-> b.reads + 1,
              outcome         |-> "Running" ]

\* `reader.read` returned Err: the `while let` pattern fails, the loop ends
\* and the function returns Item with the slots pushed so far
BuilderReadFailed(b) == [b EXCEPT !.reads = @ + 1, !.outcome = "Item"]

\* the GrabMetadata returned at grabber.rs:317-320
BuilderMetadata(b) == GrabMetadata(b.slots, b.processed_lines)

\* the whole function with every read filling the buffer, no stop request and
\* no I/O fault
RECURSIVE RunBuilder(_, _)
RunBuilder(b, content) ==
    IF b.outcome # "Running" THEN b
    ELSE RunBuilder(
            BuilderIteration(b, content,
                             Min(b.buffer_len, Len(content) - b.byte_index),
                             FALSE),
            content)

create_metadata_for_file(content) ==
    BuilderMetadata(RunBuilder(BuilderStart, content))

(***************************************************************************)
(* Grabber::identify_slot (grabber.rs:338-374)                              *)
(***************************************************************************)
\* a binary search that would give up on the last two candidates without
\* looking at the upper one
RECURSIVE IdentifySlotLoopNoLastCheck(_, _, _, _)
IdentifySlotLoopNoLastCheck(slots, lo, hi, line_index) ==
    LET slot_mid_index == (lo + hi) \div 2
        slot == slots[slot_mid_index + 1]
    IN
    IF (line_index = 0 /\ slot.lines.start = 0)
         \/ RangeContains(slot.lines, line_index)
    THEN Some(slot)
    ELSE IF hi - lo <= 1
    THEN None
    ELSE
        LET nlo == IF line_index < slot.lines.start THEN lo ELSE slot_mid_index
            nhi == IF line_index < slot.lines.start THEN slot_mid_index ELSE hi
        IN  IF nlo = lo /\ nhi = hi THEN None
            ELSE IdentifySlotLoopNoLastCheck(slots, nlo, nhi, line_index)

RECURSIVE IdentifySlotLoop(_, _, _, _)
IdentifySlotLoop(slots, lo, hi, line_index) ==
    LET slot_mid_index == (lo + hi) \div 2
        slot == slots[slot_mid_index + 1]
    IN
    IF (line_index = 0 /\ slot.lines.start = 0)
         \/ RangeContains(slot.lines, line_index)
    THEN Some(slot)
    ELSE IF hi - lo <= 1
    THEN IF RangeContains(slots[hi + 1].lines, line_index)
         THEN Some(slots[hi + 1])
         ELSE None
    ELSE
        LET nlo == IF line_index < slot.lines.start THEN lo ELSE slot_mid_index
            nhi == IF line_index < slot.lines.start THEN slot_mid_index ELSE hi
        IN  IF nlo = lo /\ nhi = hi THEN None
            ELSE IdentifySlotLoop(slots, nlo, nhi, line_index)

\* a lookup that would answer a line past the end with the last slot
identify_slot_or_last(metadata, line_index) ==
    IF ~IsSome(metadata) THEN None
    ELSE IF Len(Unwrap(metadata).slots) = 0 THEN None
    ELSE LET slots == Unwrap(metadata).slots
             found == IdentifySlotLoop(slots, 0, Len(slots) - 1, line_index)
         IN  IF IsSome(found) THEN found ELSE Some(slots[Len(slots)])

\* metadata is an Option<GrabMetadata>
identify_slot(metadata, line_index) ==
    IF ~IsSome(metadata) THEN None
    ELSE IF Len(Unwrap(metadata).slots) = 0 THEN None
    ELSE IdentifySlotLoop(Unwrap(metadata).slots, 0,
                          Len(Unwrap(metadata).slots) - 1, line_index)

(***************************************************************************)
(* Grabber::get_entries (grabber.rs:379-426)                                *)
(***************************************************************************)
IsSeparator(c) == c = NL \/ c = CR

\* str::split(|c| c == '\n' || c == '\r'): the pieces between separators,
\* empty pieces and the piece after the last separator included
RECURSIVE SplitFrom(_, _, _)
SplitFrom(s, i, cur) ==
    IF i > Len(s) THEN <<cur>>
    ELSE IF IsSeparator(s[i]) THEN <<cur>> \o SplitFrom(s, i + 1, <<>>)
    ELSE SplitFrom(s, i + 1, Append(cur, s[i]))

SplitLines(s) == SplitFrom(s, 1, <<>>)

\* Iterator::skip(n).take(m)
SkipTake(seq, n, m) ==
    SubSeq(seq, n + 1, Min(Len(seq), n + m))

GrabbedContent(elements) == [kind |-> "Ok", grabbed_elements |-> elements]

\* a range check that would let an empty range through
IsInvalidRangeStrict(line_range) == line_range.end < line_range.start

\* the range check of grabber.rs:381
IsInvalidRange(line_range) == line_range.end <= line_range.start

get_entries(metadata, content, line_range) ==
    IF IsInvalidRange(line_range)
    THEN [kind |-> "InvalidRange", grabbed_elements |-> <<>>]
    ELSE
        LET maybe_start_slot == identify_slot(metadata, line_range.start)
            maybe_end_slot   == identify_slot(metadata, line_range.end - 1)
        IN
        IF IsSome(maybe_start_slot) /\ IsSome(maybe_end_slot)
        THEN
            LET start_slot == Unwrap(maybe_start_slot)
                end_slot   == Unwrap(maybe_end_slot)
            IN
            IF end_slot.bytes.end > Len(content)
                 \/ end_slot.bytes.end < start_slot.bytes.start
            THEN \* read_exact cannot fill the buffer
                 [kind |-> "IoOperation", grabbed_elements |-> <<>>]
            ELSE
                LET read_buf == SubSeq(content, start_slot.bytes.start + 1,
                                       end_slot.bytes.end)
                    to_skip == line_range.start - start_slot.lines.start
                    to_take == line_range.end - line_range.start
                IN  GrabbedContent(SkipTake(SplitLines(read_buf),
                                            to_skip, to_take))
        ELSE GrabbedContent(<<>>)

(***************************************************************************)
(* Session: paths, files and the source adapters                            *)
(***************************************************************************)
\* most operations ever sent on the operation channel in one run
MaxOps == 3
\* most start() calls in one run (each spawns a worker thread)
MaxWorkers == 1
\* buffer of the operation channel; the code asks for broadcast::channel(10)
\* (session.rs:236), the model scales it down so that MaxOps can overrun it
OP_CHANNEL_CAPACITY == 2
\* capacity of cc::bounded(1) for both metadata channels (session.rs:237)
METADATA_CHANNEL_CAPACITY == 1

\* a path: its stem and its extension (Path::extension is an Option)
Path(stem, extension) == [stem |-> stem, extension |-> extension]

TextFile  == Path("a", Some("txt"))
DltFile   == Path("b", Some("DLT"))
EmptyFile == Path("empty", Some("txt"))
AssignablePaths == {TextFile, DltFile, EmptyFile}

\* paths of one more file, `c`, under every kind of extension the classifier
\* tells apart: none, empty, dlt/txt/text in several spellings, unknown ones
ClassifiableExtensions ==
    {None} \cup {Some(e) : e \in {"", "dlt", "DLT", "Dlt", "txt", "TXT",
                                   "text", "TEXT", "log", "dlt2"}}
ClassifiablePaths == {Path("c", e) : e \in ClassifiableExtensions}

\* bytes of the files of the run; the source files do not change during a
\* session.  TextFile is `a\nb` (last line not terminated).
FileContent(path) ==
    CASE path = TextFile  -> <<"a", NL, "b">>
      [] path = DltFile   -> <<"d">>
      [] path.stem = "c"  -> <<"c">>
      [] OTHER            -> <<>>

\* a comparison of extensions that would tell upper from lower case
KeepCase(ext) == ext

\* str::to_lowercase on the extensions that occur
ToLowercase(ext) ==
    CASE ext = "DLT"  -> "dlt"
      [] ext = "Dlt"  -> "dlt"
      [] ext = "TXT"  -> "txt"
      [] ext = "TEXT" -> "text"
      [] OTHER        -> ext

\* get_supported_file_type (session.rs:73-83)
get_supported_file_type(path) ==
    IF IsSome(path.extension)
    THEN LET ext == ToLowercase(Unwrap(path.extension))
         IN  IF ext = "dlt" THEN Some("Dlt")
             ELSE IF ext \in {"txt", "text"} THEN Some("Text")
             ELSE Some("Text")
    ELSE Some("Text")

\* a constructor that would take a file of any size
GrabberLazyAnySize(path, source_id) ==
    [kind |-> "Ok",
     grabber |-> Some([source_id |-> source_id,
                       path      |-> path,
                       metadata  |-> None])]

\* Grabber::lazy (grabber.rs:113-130): refuses an empty file, otherwise a
\* grabber without metadata
GrabberLazy(path, source_id) ==
    IF Len(FileContent(path)) = 0
    THEN [kind |-> "Config", grabber |-> None]
    ELSE [kind |-> "Ok",
          grabber |-> Some([source_id |-> source_id,
                            path      |-> path,
                            metadata  |-> None])]

\* ComputationResult / Result values of a metadata build
BuildItem(md) == [kind |-> "Item", metadata |-> Some(md)]
BuildStopped  == [kind |-> "Stopped", metadata |-> None]
BuildErr      == [kind |-> "Err", metadata |-> None]

\* utils::check_if_stop_was_requested(shutdown_receiver.as_ref(), ..): a
\* receiver is an Option; Some(fired) says whether a () is waiting in it
check_if_stop_was_requested(shutdown_receiver) ==
    IsSome(shutdown_receiver) /\ Unwrap(shutdown_receiver)

\* TextFileSource::from_file(shutdown_receiver): the text source runs the
\* builder of grabber.rs over its file; `opened` is whether File::open
\* succeeded (grabber.rs:279).  The builder asks for a stop after its first
\* read (grabber.rs:288-291).
TextFromFile(bytes, opened, shutdown_receiver) ==
    IF ~opened THEN BuildErr
    ELSE IF check_if_stop_was_requested(shutdown_receiver) THEN BuildStopped
    ELSE BuildItem(create_metadata_for_file(bytes))

\* DltSource::from_file: the parser is outside this model; only its result
\* type is known.  An Item counts one record per file here.
DltMetadata(bytes) ==
    GrabMetadata(<<Slot(ByteRange(0, Len(bytes)), LineRange(0, 1))>>, 1)

DltFromFileOutcomes(bytes) ==
    {BuildItem(DltMetadata(bytes)), BuildStopped, BuildErr}

\* the shutdown receiver the worker hands to from_file: None
\* (session.rs:287, 291, 365)
WorkerShutdownReceiver(fired) == None

\* the results the Assign arm can get from source.from_file(None)
\* (session.rs:284-293); `fired` says whether cancel_operations has sent
AssignBuildOutcomes(op, fired) ==
    IF op.source_type = "Dlt"
    THEN DltFromFileOutcomes(FileContent(op.file_path))
    ELSE {TextFromFile(FileContent(op.file_path), opened,
                       WorkerShutdownReceiver(fired)) : opened \in BOOLEAN}

(***************************************************************************)
(* Session: search executor (processor::search, outside src/)               *)
(***************************************************************************)
\* a filter is a literal; in TextFile "a" matches line 0 and "b" line 1, in
\* DltFile neither matches
Filters == {"a", "b"}

\* the lines a line-by-line scan yields: no empty piece after a final
\* separator
ScanLines(bytes) ==
    LET pieces == SplitLines(bytes)
    IN  IF Len(bytes) > 0 /\ IsSeparator(bytes[Len(bytes)])
        THEN SubSeq(pieces, 1, Len(pieces) - 1)
        ELSE pieces

LineMatches(line, filter) == \E i \in 1..Len(line) : line[i] = filter

\* zero-based indices of the matching lines, ascending
RECURSIVE MatchesFrom(_, _, _)
MatchesFrom(lines, k, filter) ==
    IF k > Len(lines) THEN <<>>
    ELSE (IF LineMatches(lines[k], filter) THEN <<k - 1>> ELSE <<>>)
            \o MatchesFrom(lines, k + 1, filter)

SearchMatches(bytes, filter) == MatchesFrom(ScanLines(bytes), 1, filter)

Digit(d) == CASE d = 0 -> "0" [] d = 1 -> "1" [] d = 2 -> "2" [] d = 3 -> "3"
              [] d = 4 -> "4" [] d = 5 -> "5" [] d = 6 -> "6" [] d = 7 -> "7"
              [] d = 8 -> "8" [] d = 9 -> "9"

\* u64 -> decimal text
RECURSIVE Decimal(_)
Decimal(n) ==
    IF n < 10 THEN <<Digit(n)>>
    ELSE Append(Decimal(n \div 10), Digit(n % 10))

\* the results file: one decimal line number per line
RECURSIVE ResultsFileBytes(_)
ResultsFileBytes(matches) ==
    IF matches = <<>> THEN <<>>
    ELSE Decimal(Head(matches)) \o <<NL>> \o ResultsFileBytes(Tail(matches))

\* the results file lies beside its target
ResultsPath(target) == Path(target.stem, Some("results"))

(***************************************************************************)
(* Session: operations, events, errors                                      *)
(***************************************************************************)
\* Operation (session.rs:36-50)
OpAssign(file_path, source_id, operation_id, source_type) ==
    [type |-> "Assign", file_path |-> file_path, source_id |-> source_id,
     operation_id |-> operation_id, source_type |-> source_type,
     filter |-> "-"]
OpSearch(target_file, filter, operation_id) ==
    [type |-> "Search", file_path |-> target_file, source_id |-> "-",
     operation_id |-> operation_id, source_type |-> "-",
     filter |-> filter]
OpEnd ==
    [type |-> "End", file_path |-> Path("-", None), source_id |-> "-",
     operation_id |-> 0, source_type |-> "-", filter |-> "-"]

\* CallbackEvent; `op` is the position in the operation channel of the
\* operation the worker was executing when it called the callback
Event(type, op, uuid, value) ==
    [type |-> type, op |-> op, uuid |-> uuid, value |-> value]

\* the value a host call returns: Ok with a value, or a ComputationError kind
\* (args: the arguments of a grab_search call; content: grabbed lines; rows:
\* grabbed elements with their pos and row; path: the stem of the file an
\* assign call named)
Ret(call, kind, value) ==
    [call |-> call, kind |-> kind, value |-> value, content |-> <<>>,
     args |-> <<>>, rows |-> <<>>, path |-> "-"]
NoRet == Ret("-", "-", 0)

(***************************************************************************)
(* State                                                                    *)
(***************************************************************************)
VARIABLES
    \* --- file level (SpecGrabber) ---
    content,          \* bytes of the file the grabber was created over
    builder,          \* local state of create_metadata_for_file
    stop_requested,   \* the shutdown receiver handed to the builder has fired
    io_fault,         \* a read of the builder returned Err
    entries,          \* the last get_entries call: its range and its result
    holder,           \* the GrabberHolder over the file (grabber_session.rs)
    \* --- slot lookup (SpecIdentify) ---
    index,            \* Option<GrabMetadata> held by the grabber looked up in
    lookups,          \* the identify_slot calls made: line index and result
    \* --- range coalescing of grab_search (SpecCoalesce) ---
    positions,        \* the match positions parsed from the grabbed elements
    coalesced,        \* outcome of the coalescing loop and the ranges built
    \* --- RustSession (session.rs:85-101) ---
    running,
    content_grabber,            \* Option<grabber>
    search_grabber,             \* Option<grabber>
    op_channel,                 \* every Operation sent so far, oldest first
    shutdown_channel,           \* a () has been sent on the shutdown channel
    content_metadata_channel,   \* queued results, oldest first
    search_metadata_channel,    \* queued (path, metadata), oldest first
    \* --- environment and worker threads ---
    results_files,    \* bytes of the search results file of each target
    workers,          \* one record per start() call: the spawned thread
    events,           \* per worker, the events its callback received
    \* --- observation ---
    returned,         \* value returned by the host call that made this state
    cancelled         \* operations whose build was running at a cancel call

lookupVars == <<index, lookups>>
rangeVars == <<positions, coalesced>>
grabVars == <<content, builder, stop_requested, io_fault, entries, holder,
              lookupVars, rangeVars>>
sessionVars == <<running, content_grabber, search_grabber, op_channel,
                 shutdown_channel, content_metadata_channel,
                 search_metadata_channel, results_files, workers, events,
                 returned, cancelled>>
vars == <<grabVars, sessionVars>>

NoCall == [range |-> LineRange(0, 0), result |-> None]

\* grab_search before its loop over the grabbed elements: `ranges` is empty
\* (session.rs:565)
NotCoalesced == [kind |-> "-", ranges |-> <<>>]
RangesIdle == positions = <<>> /\ coalesced = NotCoalesced

\* JsGrabberHolder init (grabber_session.rs:126-146): Grabber::lazy leaves the
\* metadata absent, the metadata channel is empty; `sent` is the position of
\* the thread spawned by start (it has sent its result or not), `call` the
\* grab made on the holder
HolderNew ==
    [ metadata         |-> None,
      metadata_channel |-> <<>>,
      sent             |-> FALSE,
      call             |-> NoCall ]

(***************************************************************************)
(* SpecGrabber: the builder loop and the read path over every small file    *)
(***************************************************************************)
\* Grabber::lazy / Grabber::new refuse an empty file (grabber.rs:119, 156)
GrabbableFiles == SeqsUpTo(Byte, MaxFileLen) \ {<<>>}

\* RustSession::new (session.rs:223-240)
SessionNew ==
    /\ running = FALSE
    /\ content_grabber = None
    /\ search_grabber = None
    /\ op_channel = <<>>
    /\ shutdown_channel = FALSE
    /\ content_metadata_channel = <<>>
    /\ search_metadata_channel = <<>>
    /\ results_files = [p \in {ResultsPath(TextFile), ResultsPath(DltFile)} |-> <<>>]
    /\ workers = <<>>
    /\ events = <<>>
    /\ returned = NoRet
    /\ cancelled = {}

GrabInit ==
    /\ content \in GrabbableFiles
    /\ builder = BuilderStart
    /\ stop_requested = FALSE
    /\ io_fault = FALSE
    /\ entries = NoCall
    /\ holder = HolderNew
    /\ index = None
    /\ lookups = <<>>
    /\ RangesIdle
    /\ SessionNew

\* the shutdown sender fires while the builder runs
RequestStop ==
    /\ builder.outcome = "Running"
    /\ ~stop_requested
    /\ stop_requested' = TRUE
    /\ UNCHANGED <<content, builder, io_fault, entries, holder, sessionVars,
                 lookupVars, rangeVars>>

\* one loop iteration with a successful read
BuilderRead ==
    /\ builder.outcome = "Running"
    /\ \E len \in ReadLens(builder, content) :
          builder' = BuilderIteration(builder, content, len, stop_requested)
    /\ UNCHANGED <<content, stop_requested, io_fault, entries, holder,
                 sessionVars, lookupVars, rangeVars>>

\* one loop iteration whose read fails
BuilderReadError ==
    /\ builder.outcome = "Running"
    /\ builder' = BuilderReadFailed(builder)
    /\ io_fault' = TRUE
    /\ UNCHANGED <<content, stop_requested, entries, holder, sessionVars,
                 lookupVars, rangeVars>>

\* line ranges a caller may ask for: every range up to and past the largest
\* line_count a file of MaxFileLen bytes can get
QueryRanges ==
    {LineRange(s, e) : s \in 0..(2 * MaxFileLen), e \in 0..(2 * MaxFileLen + 1)}

\* get_entries on a grabber holding the built metadata (one call per run)
GetEntries ==
    /\ builder.outcome = "Item"
    /\ entries = NoCall
    /\ holder.call = NoCall
    /\ \E r \in QueryRanges :
          entries' = [range |-> r,
                      result |-> Some(get_entries(Some(BuilderMetadata(builder)),
                                                  content, r))]
    /\ UNCHANGED <<content, builder, stop_requested, io_fault, holder,
                 sessionVars, lookupVars, rangeVars>>

\* the thread spawned by JsGrabberHolder::start (grabber_session.rs:214-225):
\* once create_metadata_for_file has returned Ok it sends the result into the
\* metadata channel, the index for Item and no index for Stopped
HolderSend ==
    /\ builder.outcome \in {"Item", "Stopped"}
    /\ ~holder.sent
    /\ Len(holder.metadata_channel) < 1
    /\ holder' = [holder EXCEPT
                    !.sent = TRUE,
                    !.metadata_channel =
                        Append(@, IF builder.outcome = "Item"
                                  THEN Some(BuilderMetadata(builder))
                                  ELSE None)]
    /\ UNCHANGED <<content, builder, stop_requested, io_fault, entries,
                 sessionVars, lookupVars, rangeVars>>

\* arguments of a grab on the holder: start_line_index and number_of_lines
HolderGrabArgs == {<<s, n>> : s \in 0..MaxFileLen, n \in 0..2}

\* JsGrabberHolder::grab (grabber_session.rs:161-194): while the grabber has
\* no metadata the channel is polled once, then get_entries is called with
\* LineRange(start, start + n) (one call per run)
HolderGrab ==
    /\ entries = NoCall
    /\ holder.call = NoCall
    /\ \E a \in HolderGrabArgs :
          LET polls    == ~IsSome(holder.metadata)
              received == polls /\ holder.metadata_channel # <<>>
              metadata == IF received THEN Head(holder.metadata_channel)
                          ELSE holder.metadata
              channel  == IF received THEN Tail(holder.metadata_channel)
                          ELSE holder.metadata_channel
              r        == LineRange(a[1], a[1] + a[2])
          IN  holder' = [holder EXCEPT
                           !.metadata = metadata,
                           !.metadata_channel = channel,
                           !.call = [range  |-> r,
                                     result |-> Some(get_entries(metadata,
                                                                 content, r))]]
    /\ UNCHANGED <<content, builder, stop_requested, io_fault, entries,
                 sessionVars, lookupVars, rangeVars>>

GrabNext ==
    \/ RequestStop
    \/ BuilderRead
    \/ BuilderReadError
    \/ GetEntries
    \/ HolderSend
    \/ HolderGrab

SpecGrabber == GrabInit /\ [][GrabNext]_vars

(***************************************************************************)
(* Claims settled under SpecGrabber                                         *)
(***************************************************************************)
\* the builder ran to its end with no stop request and no failed read
BuiltCleanly ==
    /\ builder.outcome = "Item"
    /\ ~stop_requested
    /\ ~io_fault

\* the lines a scan of the whole file from byte 0 yields (same separators as
\* the read path)
FullScan(bytes) == SplitLines(bytes)

\* every read but the last filled the buffer (the usual case on a regular file)
FullReads ==
    \A k \in 1..(Len(builder.slots) - 1) :
        builder.slots[k].bytes.end - builder.slots[k].bytes.start
            = READ_BUFFER_SIZE

\* C1: for every file and the index built over it, every get_entries call
\* with start + n <= line_count returns exactly the n lines a full scan of the
\* file yields at indices [start, start + n), in order.
C1_RoundTrip ==
    (/\ BuiltCleanly
     /\ FullReads
     /\ IsSome(entries.result)
     /\ entries.range.start < entries.range.end
     /\ entries.range.end <= BuilderMetadata(builder).line_count)
    => LET r == entries.range
           got == Unwrap(entries.result)
       IN  /\ got.kind = "Ok"
           /\ Len(got.grabbed_elements) = r.end - r.start
           /\ got.grabbed_elements
                = SkipTake(FullScan(content), r.start, r.end - r.start)

\* number of lines of a text whose lines are separated by NL, the last line
\* terminated or not: the newline count, plus one for an unterminated rest
TextLineCount(bytes) ==
    CountNewlines(bytes)
      + (IF Len(bytes) > 0 /\ bytes[Len(bytes)] # NL THEN 1 ELSE 0)

NoCarriageReturn(bytes) == \A i \in 1..Len(bytes) : bytes[i] # CR

\* C2: for a text file of L lines (last line newline-terminated or not) the
\* line_count of the built metadata is L.  Stated for files the builder reads
\* in one buffer, as the two files of the claim are.
C2_LineCountIsNumberOfLines ==
    (/\ BuiltCleanly
     /\ NoCarriageReturn(content)
     /\ Len(builder.slots) = 1)
    => BuilderMetadata(builder).line_count = TextLineCount(content)

(***************************************************************************)
(* RustSession: access to the grabbers                                      *)
(***************************************************************************)
\* crossbeam bounded channel: try_recv takes the oldest queued value, send
\* has room only below the capacity (and blocks otherwise)
ChannelHasRoom(channel) == Len(channel) < METADATA_CHANNEL_CAPACITY

\* GrabTrait::inject_metadata: the grabber takes the metadata it is given
inject_metadata(grabber, metadata) == [grabber EXCEPT !.metadata = Some(metadata)]

\* RustSession::get_content_grabber (session.rs:109-161).  The result names the
\* error kind (or Ok) and the grabber and channel the call leaves behind.
get_content_grabber(grabber, channel) ==
    IF ~IsSome(grabber)
    THEN [kind |-> "Protocol", grabber |-> grabber, channel |-> channel]
    ELSE IF channel # <<>>
    THEN \* try_recv: Ok(new_metadata)
         LET res == Head(channel)
         IN  CASE res.kind = "Item" ->
                    [kind |-> "Ok",
                     grabber |-> Some(inject_metadata(Unwrap(grabber),
                                                      Unwrap(res.metadata))),
                     channel |-> Tail(channel)]
               [] res.kind = "Stopped" ->
                    [kind |-> "Process", grabber |-> grabber,
                     channel |-> Tail(channel)]
               [] OTHER ->
                    [kind |-> "Protocol", grabber |-> grabber,
                     channel |-> Tail(channel)]
    ELSE \* try_recv: Empty
         IF IsSome(Unwrap(grabber).metadata)
         THEN [kind |-> "Ok", grabber |-> grabber, channel |-> channel]
         ELSE [kind |-> "Protocol", grabber |-> grabber, channel |-> channel]

\* the channel is polled only while there is no search grabber
SearchGrabberPolls(grabber) == ~IsSome(grabber)

\* RustSession::get_search_grabber (session.rs:163-212).  kind Ok with an
\* absent grabber is the code's Ok(None).
get_search_grabber(grabber, channel, files) ==
    IF SearchGrabberPolls(grabber)
    THEN IF channel # <<>>
         THEN LET msg  == Head(channel)
                  made == IF Len(files[msg.file_path]) = 0
                          THEN [kind |-> "Config", grabber |-> None]
                          ELSE [kind |-> "Ok",
                                grabber |-> Some([source_id |-> "search_results",
                                                  path      |-> msg.file_path,
                                                  metadata  |-> None])]
              IN  IF made.kind # "Ok"
                  THEN [kind |-> "Protocol", grabber |-> grabber,
                        channel |-> Tail(channel)]
                  ELSE [kind |-> "Ok",
                        grabber |-> Some(inject_metadata(Unwrap(made.grabber),
                                                         msg.metadata)),
                        channel |-> Tail(channel)]
         ELSE [kind |-> "Ok", grabber |-> None, channel |-> channel]
    ELSE IF IsSome(Unwrap(grabber).metadata)
         THEN [kind |-> "Ok", grabber |-> grabber, channel |-> channel]
         ELSE [kind |-> "Protocol", grabber |-> grabber, channel |-> channel]

(***************************************************************************)
(* RustSession: host calls                                                  *)
(***************************************************************************)
\* a freshly spawned worker: it receives what is sent after `subscribe`.
\* pc is the place in the loop, next the receiver's position in the channel,
\* op the operation being executed, result/found its intermediate values;
\* handled (the operations received, in order) and stopped (the operations
\* whose metadata build ended as Stopped) record the thread's history.
WorkerSpawned(tail) ==
    [pc |-> "recv", subscribed |-> tail, next |-> tail, op |-> 0,
     result |-> BuildStopped, found |-> 0, handled |-> <<>>, stopped |-> {},
     failed |-> {}]

\* RustSession::start (session.rs:257-272, 441)
Start ==
    /\ Len(workers) < MaxWorkers
    /\ workers' = Append(workers, WorkerSpawned(Len(op_channel)))
    /\ events' = Append(events, <<>>)
    /\ running' = TRUE
    /\ returned' = Ret("start", "Ok", 0)
    /\ UNCHANGED <<content_grabber, search_grabber, op_channel,
                   shutdown_channel, content_metadata_channel,
                   search_metadata_channel, results_files, cancelled>>

\* RustSession::assign (session.rs:495-536)
AssignFile(file_path) ==
    /\ Len(op_channel) < MaxOps
    /\ LET operation_id == Len(op_channel) + 1
           source_type  == Unwrap(get_supported_file_type(file_path))
           made         == GrabberLazy(file_path, "src")
       IN  IF made.kind # "Ok"
           THEN /\ returned' = [Ret("assign", "Process", 0)
                                  EXCEPT !.path = file_path.stem]
                /\ UNCHANGED <<content_grabber, op_channel>>
           ELSE /\ content_grabber' = made.grabber
                /\ op_channel' = Append(op_channel,
                       OpAssign(file_path, "src", operation_id, source_type))
                /\ returned' = [Ret("assign", "Ok", operation_id)
                                  EXCEPT !.path = file_path.stem]
    /\ UNCHANGED <<running, search_grabber, shutdown_channel,
                   content_metadata_channel, search_metadata_channel,
                   results_files, workers, events, cancelled>>

\* an assign call of the host, over the files of the session
Assign == \E file_path \in AssignablePaths : AssignFile(file_path)

\* a search that would enqueue its operation without asking for a content
\* grabber
SearchUnchecked ==
    /\ Len(op_channel) < MaxOps
    /\ search_grabber' = None
    /\ \E filter \in Filters :
         LET operation_id == Len(op_channel) + 1
             target_file  == IF IsSome(content_grabber)
                             THEN Unwrap(content_grabber).path
                             ELSE TextFile
         IN  /\ op_channel' = Append(op_channel,
                    OpSearch(target_file, filter, operation_id))
             /\ returned' = IF IsSome(content_grabber)
                            THEN Ret("search", "Ok", operation_id)
                            ELSE Ret("search", "NoAssignedContent", 0)
    /\ UNCHANGED <<running, content_grabber, shutdown_channel,
                   content_metadata_channel, search_metadata_channel,
                   results_files, workers, events, cancelled>>

\* RustSession::search (session.rs:620-648)
Search ==
    /\ Len(op_channel) < MaxOps
    /\ search_grabber' = None
    /\ \E filter \in Filters :
         IF IsSome(content_grabber)
         THEN LET operation_id == Len(op_channel) + 1
                  target_file  == Unwrap(content_grabber).path
              IN  /\ op_channel' = Append(op_channel,
                         OpSearch(target_file, filter, operation_id))
                  /\ returned' = Ret("search", "Ok", operation_id)
         ELSE /\ returned' = Ret("search", "NoAssignedContent", 0)
              /\ UNCHANGED op_channel
    /\ UNCHANGED <<running, content_grabber, shutdown_channel,
                   content_metadata_channel, search_metadata_channel,
                   results_files, workers, events, cancelled>>

\* the operations some worker is building right now
InBuild == {workers[w].op : w \in {v \in 1..Len(workers) : workers[v].pc = "build"}}

\* RustSession::cancel_operations (session.rs:249-252)
CancelOperations ==
    /\ shutdown_channel' = TRUE
    /\ cancelled' = cancelled \cup InBuild
    /\ returned' = Ret("cancel_operations", "Ok", 0)
    /\ UNCHANGED <<running, content_grabber, search_grabber, op_channel,
                   content_metadata_channel, search_metadata_channel,
                   results_files, workers, events>>

\* RustSession::stop (session.rs:488-492)
Stop ==
    /\ Len(op_channel) < MaxOps
    /\ op_channel' = Append(op_channel, OpEnd)
    /\ running' = FALSE
    /\ returned' = Ret("stop", "Ok", 0)
    /\ UNCHANGED <<content_grabber, search_grabber, shutdown_channel,
                   content_metadata_channel, search_metadata_channel,
                   results_files, workers, events, cancelled>>

\* (start_line_index, number_of_lines) a host asks for
GrabArgs == {<<0, 1>>, <<0, 2>>}

\* LineRange::from(start ..= start + n - 1)
LineRangeFromInclusive(first, last) == LineRange(first, last + 1)

\* RustSession::grab (session.rs:466-485)
Grab ==
    /\ \E args \in GrabArgs :
         LET got == get_content_grabber(content_grabber,
                                        content_metadata_channel)
         IN  /\ content_grabber' = got.grabber
             /\ content_metadata_channel' = got.channel
             /\ IF got.kind # "Ok"
                THEN returned' = Ret("grab", got.kind, 0)
                ELSE LET g == Unwrap(got.grabber)
                         r == get_entries(g.metadata, FileContent(g.path),
                                  LineRangeFromInclusive(args[1],
                                                         args[1] + args[2] - 1))
                     IN  returned' =
                            IF r.kind = "Ok"
                            THEN [Ret("grab", "Ok", 0) EXCEPT !.content = r.grabbed_elements]
                            ELSE Ret("grab", "Communication", 0)
    /\ UNCHANGED <<running, search_grabber, op_channel, shutdown_channel,
                   search_metadata_channel, results_files, workers, events,
                   cancelled>>

\* RustSession::get_stream_len (session.rs:445-450)
GetStreamLen ==
    /\ LET got == get_content_grabber(content_grabber,
                                      content_metadata_channel)
       IN  /\ content_grabber' = got.grabber
           /\ content_metadata_channel' = got.channel
           /\ returned' =
                IF got.kind # "Ok" THEN Ret("get_stream_len", got.kind, 0)
                ELSE Ret("get_stream_len", "Ok",
                         Unwrap(Unwrap(got.grabber).metadata).line_count)
    /\ UNCHANGED <<running, search_grabber, op_channel, shutdown_channel,
                   search_metadata_channel, results_files, workers, events,
                   cancelled>>

\* RustSession::get_search_len (session.rs:453-463)
GetSearchLen ==
    /\ LET got == get_search_grabber(search_grabber, search_metadata_channel,
                                     results_files)
       IN  /\ search_grabber' = got.grabber
           /\ search_metadata_channel' = got.channel
           /\ returned' =
                IF got.kind # "Ok" THEN Ret("get_search_len", got.kind, 0)
                ELSE IF ~IsSome(got.grabber) THEN Ret("get_search_len", "Ok", 0)
                ELSE Ret("get_search_len", "Ok",
                         Unwrap(Unwrap(got.grabber).metadata).line_count - 1)
    /\ UNCHANGED <<running, content_grabber, op_channel, shutdown_channel,
                   content_metadata_channel, results_files, workers, events,
                   cancelled>>

(***************************************************************************)
(* RustSession::grab_search (session.rs:539-617)                            *)
(***************************************************************************)
IsDigit(c) == c \in {"0", "1", "2", "3", "4", "5", "6", "7", "8", "9"}

DigitValue(c) ==
    CASE c = "0" -> 0 [] c = "1" -> 1 [] c = "2" -> 2 [] c = "3" -> 3
      [] c = "4" -> 4 [] c = "5" -> 5 [] c = "6" -> 6 [] c = "7" -> 7
      [] c = "8" -> 8 [] c = "9" -> 9

RECURSIVE DigitsValue(_, _)
DigitsValue(line, acc) ==
    IF line = <<>> THEN acc
    ELSE DigitsValue(Tail(line), 10 * acc + DigitValue(Head(line)))

\* el.content.parse::<u64>() (session.rs:569): Err on an empty line and on
\* any character that is no digit
ParseU64(line) ==
    IF Len(line) = 0 \/ \E i \in 1..Len(line) : ~IsDigit(line[i])
    THEN None
    ELSE Some(DigitsValue(line, 0))

\* RangeInclusive::new(from_pos - 1, to_pos - 1) (session.rs:575, 590); the
\* subtraction is on u64, a bound of -1 here stands for 0 - 1
ShiftedRange(from_pos, to_pos) == [first |-> from_pos - 1, last |-> to_pos - 1]

\* the loop over the grabbed positions (session.rs:568-586)
RECURSIVE CoalesceFrom(_, _, _)
CoalesceFrom(elements, i, st) ==
    IF i > Len(elements) THEN st
    ELSE LET pos == elements[i]
         IN  CoalesceFrom(elements, i + 1,
               IF i = 1
               THEN [st EXCEPT !.from_pos = pos, !.to_pos = pos]
               ELSE IF st.to_pos + 1 # pos
               THEN [ranges   |-> Append(st.ranges,
                                         ShiftedRange(st.from_pos, st.to_pos)),
                     from_pos |-> pos,
                     to_pos   |-> pos]
               ELSE [st EXCEPT !.to_pos = pos])

\* a loop that would leave the run it is in when the elements end
SearchRangesWithoutLastRun(elements) ==
    CoalesceFrom(elements, 1,
                 [ranges |-> <<>>, from_pos |-> 0, to_pos |-> 0]).ranges

\* the ranges of the original file grab_search asks the content grabber for
\* (session.rs:565-591)
SearchRanges(elements) ==
    LET st == CoalesceFrom(elements, 1,
                           [ranges |-> <<>>, from_pos |-> 0, to_pos |-> 0])
    IN  IF \/ /\ st.ranges # <<>>
              /\ st.ranges[Len(st.ranges)].first # st.from_pos
           \/ /\ st.ranges = <<>>
              /\ elements # <<>>
        THEN Append(st.ranges, ShiftedRange(st.from_pos, st.to_pos))
        ELSE st.ranges

\* 0 - 1 on u64
Underflows(ranges) ==
    \E k \in 1..Len(ranges) : ranges[k].first < 0 \/ ranges[k].last < 0

\* what 0 - 1 on u64 leads to: a build with overflow checks panics at the
\* subtraction; a build without wraps to 2^64 - 1 and the content grabber is
\* asked for a range that does not exist
UnderflowOutcomes == {"Panic", "Communication"}

\* element.pos = Some(start + j); element.row = Some(row) (session.rs:599-603)
AnnotatedRows(lines, start, row) ==
    [j \in 1..Len(lines) |->
        [content |-> lines[j], pos |-> start + j - 1, row |-> row + j - 1]]

\* the loop over the ranges (session.rs:592-607) on a content grabber that
\* has metadata
RECURSIVE RowsOfRanges(_, _, _, _)
RowsOfRanges(ranges, k, row, grabber) ==
    IF k > Len(ranges) THEN [kind |-> "Ok", rows |-> <<>>]
    ELSE LET range == ranges[k]
             got   == get_entries(grabber.metadata, FileContent(grabber.path),
                                  LineRangeFromInclusive(range.first, range.last))
         IN  IF got.kind # "Ok"
             THEN [kind |-> "Communication", rows |-> <<>>]
             ELSE LET here == AnnotatedRows(got.grabbed_elements, range.first, row)
                      rest == RowsOfRanges(ranges, k + 1, row + Len(here), grabber)
                  IN  IF rest.kind # "Ok" THEN rest
                      ELSE [kind |-> "Ok", rows |-> here \o rest.rows]

RetSearchRows(args, kind, rows) ==
    [Ret("grab_search", kind, 0) EXCEPT !.args = args, !.rows = rows]

GrabSearch ==
    /\ \E args \in GrabArgs :
         LET sg == get_search_grabber(search_grabber, search_metadata_channel,
                                      results_files)
             cg == get_content_grabber(content_grabber,
                                       content_metadata_channel)
             AskContent(ranges) ==
                 /\ content_grabber' = cg.grabber
                 /\ content_metadata_channel' = cg.channel
                 /\ IF cg.kind # "Ok"
                    THEN returned' = RetSearchRows(args, cg.kind, <<>>)
                    ELSE IF Underflows(ranges)
                    THEN returned' = RetSearchRows(args, "Communication", <<>>)
                    ELSE LET res == RowsOfRanges(ranges, 1, args[1],
                                                 Unwrap(cg.grabber))
                         IN  returned' = RetSearchRows(args, res.kind, res.rows)
             Leave(kind) ==
                 /\ returned' = RetSearchRows(args, kind, <<>>)
                 /\ UNCHANGED <<content_grabber, content_metadata_channel>>
         IN  /\ search_grabber' = sg.grabber
             /\ search_metadata_channel' = sg.channel
             /\ IF sg.kind # "Ok" THEN Leave(sg.kind)
                ELSE IF ~IsSome(sg.grabber) THEN Leave("Ok")
                ELSE
                  LET g == Unwrap(sg.grabber)
                      grabbed == get_entries(g.metadata, results_files[g.path],
                                     LineRangeFromInclusive(args[1],
                                                            args[1] + args[2] - 1))
                      parsed == [k \in 1..Len(grabbed.grabbed_elements) |->
                                    ParseU64(grabbed.grabbed_elements[k])]
                  IN  IF grabbed.kind # "Ok" THEN Leave("Communication")
                      ELSE IF \E k \in 1..Len(parsed) : ~IsSome(parsed[k])
                      THEN Leave("Process")
                      ELSE
                        LET found  == [k \in 1..Len(parsed) |-> Unwrap(parsed[k])]
                            ranges == SearchRanges(found)
                        IN  IF ranges = <<>> THEN Leave("Ok")
                            ELSE IF Underflows(ranges)
                            THEN \E outcome \in UnderflowOutcomes :
                                    IF outcome = "Panic" THEN Leave("Panic")
                                    ELSE AskContent(ranges)
                            ELSE AskContent(ranges)
    /\ UNCHANGED <<running, op_channel, shutdown_channel, results_files,
                   workers, events, cancelled>>

(***************************************************************************)
(* The worker thread spawned by start (session.rs:270-440)                  *)
(***************************************************************************)
\* a callback that would hand over the newest events first
EmitReversed(w, evs) == events' = [events EXCEPT ![w] = evs \o @]

\* callback(event), for each of evs in turn
Emit(w, evs) == events' = [events EXCEPT ![w] = @ \o evs]

\* back at `event_stream.recv().await`
BackToRecv(wk) ==
    [wk EXCEPT !.pc = "recv", !.op = 0, !.result = BuildStopped, !.found = 0]

\* tokio broadcast: a receiver that is more than the buffer behind has lost
\* the oldest values and gets Err(Lagged)
Lagged(wk) == Len(op_channel) - wk.next > OP_CHANNEL_CAPACITY

\* event_stream.recv().await and the match on its result (session.rs:274-281,
\* 336-341, 426-436)
WorkerRecv(w) ==
    LET wk == workers[w]
        i  == wk.next + 1
    IN
    /\ wk.pc = "recv"
    /\ IF Lagged(wk)
       THEN \* Err(e) => break
            /\ workers' = [workers EXCEPT ![w].pc = "exited"]
            /\ UNCHANGED events
       ELSE /\ wk.next < Len(op_channel)
            /\ IF op_channel[i].type = "End"
               THEN /\ Emit(w, <<Event("SessionDestroyed", i, 0, -1)>>)
                    /\ workers' = [workers EXCEPT ![w].pc = "exited",
                                                  ![w].next = i,
                                                  ![w].handled = Append(@, i)]
               ELSE /\ workers' = [workers EXCEPT ![w].pc = "build",
                                                  ![w].next = i,
                                                  ![w].op = i,
                                                  ![w].handled = Append(@, i)]
                    /\ UNCHANGED events
    /\ returned' = NoRet
    /\ UNCHANGED <<running, content_grabber, search_grabber, op_channel,
                   shutdown_channel, content_metadata_channel,
                   search_metadata_channel, results_files, cancelled>>

\* Assign arm: source.from_file(None) (session.rs:282-293)
WorkerBuildMetadata(w) ==
    LET wk == workers[w]
        op == op_channel[wk.op]
    IN
    /\ wk.pc = "build"
    /\ op.type = "Assign"
    /\ \E metadata_res \in AssignBuildOutcomes(op, shutdown_channel) :
          workers' = [workers EXCEPT
                         ![w].pc = "deliver",
                         ![w].result = metadata_res,
                         ![w].stopped = IF metadata_res.kind = "Stopped"
                                        THEN @ \cup {wk.op} ELSE @,
                         ![w].failed = IF metadata_res.kind = "Err"
                                       THEN @ \cup {wk.op} ELSE @]
    /\ returned' = NoRet
    /\ UNCHANGED <<running, content_grabber, search_grabber, op_channel,
                   shutdown_channel, content_metadata_channel,
                   search_metadata_channel, results_files, events, cancelled>>

\* the callback of the Search arm when execute_search returned Err
\* (session.rs:346-358)
SearchFailedEvents(i, id) == <<Event("OperationError", i, id, -1)>>

\* Search arm up to the point where it has something to send
\* (session.rs:341-366, 373-425)
WorkerExecuteSearch(w) ==
    LET wk == workers[w]
        op == op_channel[wk.op]
        id == op.operation_id
    IN
    /\ wk.pc = "build"
    /\ op.type = "Search"
    /\ \E executed \in BOOLEAN, opened \in BOOLEAN :
         IF ~executed
         THEN \* execute_search failed: OperationError, then `continue`
              /\ Emit(w, SearchFailedEvents(wk.op, id))
              /\ workers' = [workers EXCEPT
                                ![w] = BackToRecv([wk EXCEPT
                                           !.failed = @ \cup {wk.op}])]
              /\ UNCHANGED results_files
         ELSE
           LET matches   == SearchMatches(FileContent(op.file_path), op.filter)
               out_path  == ResultsPath(op.file_path)
               out_bytes == ResultsFileBytes(matches)
               metadata_res == TextFromFile(out_bytes, opened,
                                            WorkerShutdownReceiver(shutdown_channel))
               done == Event("OperationDone", wk.op, id, Len(matches))
           IN
           /\ results_files' = [results_files EXCEPT ![out_path] = out_bytes]
           /\ IF matches = <<>>
              THEN /\ Emit(w, <<Event("SearchUpdated", wk.op, 0, 0), done>>)
                   /\ workers' = [workers EXCEPT ![w] = BackToRecv(wk)]
              ELSE IF metadata_res.kind = "Item"
              THEN /\ workers' = [workers EXCEPT ![w].pc = "deliver",
                                                 ![w].result = metadata_res,
                                                 ![w].found = Len(matches)]
                   /\ UNCHANGED events
              ELSE /\ Emit(w, <<Event("OperationError", wk.op, id, -1), done>>)
                   /\ workers' = [workers EXCEPT ![w] = BackToRecv(wk)]
    /\ returned' = NoRet
    /\ UNCHANGED <<running, content_grabber, search_grabber, op_channel,
                   shutdown_channel, content_metadata_channel,
                   search_metadata_channel, cancelled>>

\* the events the Assign arm emits after its send (session.rs:294-334)
\* an Assign arm that would report a stream update for every build outcome
AssignEventsAlwaysUpdated(i, id, res) ==
    <<Event("StreamUpdated", i, 0, 0), Event("OperationDone", i, id, -1)>>

\* an Assign arm that would keep a failed build to itself
AssignEventsErrorUnreported(i, id, res) ==
    (CASE res.kind = "Item" ->
            <<Event("StreamUpdated", i, 0, Unwrap(res.metadata).line_count)>>
       [] OTHER -> <<>>)
      \o <<Event("OperationDone", i, id, -1)>>

AssignEvents(i, id, res) ==
    (CASE res.kind = "Item" ->
            <<Event("StreamUpdated", i, 0, Unwrap(res.metadata).line_count)>>
       [] res.kind = "Stopped" -> <<>>
       [] OTHER -> <<Event("OperationError", i, id, -1)>>)
      \o <<Event("OperationDone", i, id, -1)>>

\* Assign arm: content_metadata_tx.send(..), the callbacks after it
\* (session.rs:294-334).  The send waits while the channel is full.
WorkerDeliverMetadata(w) ==
    LET wk == workers[w]
        op == op_channel[wk.op]
    IN
    /\ wk.pc = "deliver"
    /\ op.type = "Assign"
    /\ ChannelHasRoom(content_metadata_channel)
    /\ content_metadata_channel' =
          Append(content_metadata_channel,
                 [kind |-> wk.result.kind, metadata |-> wk.result.metadata,
                  op |-> wk.op])
    /\ Emit(w, AssignEvents(wk.op, op.operation_id, wk.result))
    /\ workers' = [workers EXCEPT ![w] = BackToRecv(wk)]
    /\ returned' = NoRet
    /\ UNCHANGED <<running, content_grabber, search_grabber, op_channel,
                   shutdown_channel, search_metadata_channel, results_files,
                   cancelled>>

\* Search arm: search_metadata_tx.send(..), SearchUpdated, OperationDone
\* (session.rs:367-372, 389-424)
WorkerDeliverSearch(w) ==
    LET wk == workers[w]
        op == op_channel[wk.op]
        md == Unwrap(wk.result.metadata)
    IN
    /\ wk.pc = "deliver"
    /\ op.type = "Search"
    /\ ChannelHasRoom(search_metadata_channel)
    /\ search_metadata_channel' =
          Append(search_metadata_channel,
                 [file_path |-> ResultsPath(op.file_path), metadata |-> md,
                  op |-> wk.op])
    /\ Emit(w, <<Event("SearchUpdated", wk.op, 0, md.line_count),
                 Event("OperationDone", wk.op, op.operation_id, wk.found)>>)
    /\ workers' = [workers EXCEPT ![w] = BackToRecv(wk)]
    /\ returned' = NoRet
    /\ UNCHANGED <<running, content_grabber, search_grabber, op_channel,
                   shutdown_channel, content_metadata_channel, results_files,
                   cancelled>>

(***************************************************************************)
(* Spec: the session                                                        *)
(***************************************************************************)
\* the file-level variables are not used by the session
FileIdle ==
    /\ content = <<>>
    /\ builder = BuilderStart
    /\ stop_requested = FALSE
    /\ io_fault = FALSE
    /\ entries = NoCall
    /\ holder = HolderNew

GrabIdle ==
    /\ FileIdle
    /\ index = None
    /\ lookups = <<>>
    /\ RangesIdle

Init == GrabIdle /\ SessionNew

Next ==
    \/ Start /\ UNCHANGED grabVars
    \/ Assign /\ UNCHANGED grabVars
    \/ Search /\ UNCHANGED grabVars
    \/ CancelOperations /\ UNCHANGED grabVars
    \/ Stop /\ UNCHANGED grabVars
    \/ Grab /\ UNCHANGED grabVars
    \/ GetStreamLen /\ UNCHANGED grabVars
    \/ GetSearchLen /\ UNCHANGED grabVars
    \/ GrabSearch /\ UNCHANGED grabVars
    \/ \E w \in 1..Len(workers) : WorkerRecv(w) /\ UNCHANGED grabVars
    \/ \E w \in 1..Len(workers) : WorkerBuildMetadata(w) /\ UNCHANGED grabVars
    \/ \E w \in 1..Len(workers) : WorkerExecuteSearch(w) /\ UNCHANGED grabVars
    \/ \E w \in 1..Len(workers) : WorkerDeliverMetadata(w) /\ UNCHANGED grabVars
    \/ \E w \in 1..Len(workers) : WorkerDeliverSearch(w) /\ UNCHANGED grabVars

Spec == Init /\ [][Next]_vars

\* scheduling: a spawned thread that can take a step eventually takes one; the
\* host is free to call nothing more
WorkerStep(w) ==
    /\ w <= Len(workers)
    /\ \/ WorkerRecv(w)
       \/ WorkerBuildMetadata(w)
       \/ WorkerExecuteSearch(w)
       \/ WorkerDeliverMetadata(w)
       \/ WorkerDeliverSearch(w)
    /\ UNCHANGED grabVars

FairSpec == Spec /\ \A w \in 1..MaxWorkers : WF_vars(WorkerStep(w))

(***************************************************************************)
(* Claims settled under Spec and FairSpec                                   *)
(***************************************************************************)
Workers == 1..Len(workers)

\* the events worker w's callback received for operation i, in order
EventsOf(w, i) == SelectSeq(events[w], LAMBDA e : e.op = i)

\* worker w has finished executing operation i
Completed(w, i) ==
    /\ \E k \in 1..Len(workers[w].handled) : workers[w].handled[k] = i
    /\ workers[w].op # i

AssignSent(i) == i <= Len(op_channel) /\ op_channel[i].type = "Assign"

\* C3: the worker handles the operations sent to it in the order they were
\* sent, one after the other, and skips none: what it has received is the
\* unbroken run of operations sent since it subscribed, and it leaves its loop
\* only on End.
C3_HandlesEveryOperationInOrder ==
    \A w \in Workers :
        LET wk == workers[w]
        IN  /\ wk.handled = [k \in 1..Len(wk.handled) |-> wk.subscribed + k]
            /\ wk.pc = "exited"
                 => /\ Len(wk.handled) > 0
                    /\ op_channel[wk.handled[Len(wk.handled)]].type = "End"

\* C4: in the events one callback receives, every event of an operation comes
\* before every event of any operation enqueued after it.
C4_EventsInOperationOrder ==
    \A w \in Workers :
        \A a, b \in 1..Len(events[w]) :
            a < b => events[w][a].op <= events[w][b].op

\* a callback has received the events of two operations
C4_Witness ==
    \E w \in Workers :
        \E a, b \in 1..Len(events[w]) :
            /\ a < b
            /\ events[w][a].op < events[w][b].op
            /\ events[w][a].type = "OperationDone"
            /\ events[w][b].type = "OperationDone"

OperationDoneFor(i) ==
    /\ i <= Len(op_channel)
    /\ \E w \in Workers :
          \E k \in 1..Len(events[w]) :
              /\ events[w][k].type = "OperationDone"
              /\ events[w][k].uuid = op_channel[i].operation_id

\* no End was sent before operation i
NoEndBefore(i) ==
    \A j \in 1..Min(i, Len(op_channel)) : op_channel[j].type # "End"

\* C5: every assign that returned an operation id is eventually followed by
\* OperationDone with that id, once the session has a worker and as long as
\* the session was not stopped before the assign, whatever the host does or
\* does not call next and whether the assign came before or after start.
C5_AssignEventuallyDone ==
    \A i \in 1..MaxOps :
        []((AssignSent(i) /\ NoEndBefore(i) /\ Workers # {})
              => <>OperationDoneFor(i))

\* C6: a metadata build that was running when cancel_operations was called
\* does not complete with a slot index.
C6_CancelledBuildIsStopped ==
    \A w \in Workers :
        LET wk == workers[w]
        IN  (/\ wk.pc = "deliver"
             /\ op_channel[wk.op].type = "Assign"
             /\ wk.op \in cancelled)
            => wk.result.kind # "Item"

\* C7: for an Assign whose build ended as Stopped, the worker's callback gets
\* no StreamUpdated, and once the operation is finished exactly one event:
\* OperationDone with the operation's id and no result.
C7_StoppedAssignEmitsOnlyDone ==
    \A w \in Workers :
        \A i \in workers[w].stopped :
            /\ \A k \in 1..Len(events[w]) :
                  events[w][k].op = i => events[w][k].type # "StreamUpdated"
            /\ Completed(w, i)
                 => EventsOf(w, i)
                      = <<Event("OperationDone", i,
                                op_channel[i].operation_id, -1)>>

\* a worker has finished an Assign whose build ended as Stopped
C7_Witness ==
    \E w \in Workers :
        \E i \in workers[w].stopped :
            /\ op_channel[i].type = "Assign"
            /\ Completed(w, i)

\* the most recent Assign sent
LastAssign ==
    IF \E i \in 1..Len(op_channel) : AssignSent(i)
    THEN CHOOSE i \in 1..Len(op_channel) :
            /\ AssignSent(i)
            /\ \A j \in 1..Len(op_channel) : AssignSent(j) => j <= i
    ELSE 0

\* C8: once the build of the most recent Assign was cancelled (and its worker
\* has finished the operation), every grab fails with Protocol.
C8_GrabAfterCancelledAssignIsProtocol ==
    (/\ returned.call = "grab"
     /\ LastAssign # 0
     /\ \E w \in Workers : /\ LastAssign \in workers[w].stopped
                           /\ Completed(w, LastAssign))
    => returned.kind = "Protocol"

\* C9: a worker that has a metadata result to send never has to wait for the
\* host: its send goes through whether or not an older result is still in the
\* channel.
C9_SendNeverWaits ==
    \A w \in Workers :
        workers[w].pc = "deliver"
            => ENABLED (WorkerDeliverMetadata(w) \/ WorkerDeliverSearch(w))

\* C10: every call of get_content_grabber and of get_search_grabber takes a
\* pending value out of its channel: when grab, get_stream_len or
\* get_search_len returns, nothing is left pending in the channel it reads.
C10_PendingValueAlwaysTaken ==
    /\ returned.call \in {"grab", "get_stream_len"}
         => content_metadata_channel = <<>>
    /\ returned.call = "get_search_len"
         => search_metadata_channel = <<>>

(***************************************************************************)
(* Claims C11..C20                                                          *)
(***************************************************************************)
\* a step keeps the content grabber object: only a successful assign makes a
\* new one, and it sends an operation
SameContentGrabber ==
    /\ IsSome(content_grabber)
    /\ IsSome(content_grabber')
    /\ op_channel' = op_channel

\* a step keeps the search grabber object: search drops it, and only a call
\* that finds none makes one
SameSearchGrabber == IsSome(search_grabber) /\ IsSome(search_grabber')

\* C11: once a grabber object holds metadata, no step replaces it with
\* different metadata.
C11_MetadataSetAtMostOnce ==
    [][/\ (SameContentGrabber /\ IsSome(Unwrap(content_grabber).metadata))
            => Unwrap(content_grabber').metadata
                  = Unwrap(content_grabber).metadata
       /\ (SameSearchGrabber /\ IsSome(Unwrap(search_grabber).metadata))
            => Unwrap(search_grabber').metadata
                  = Unwrap(search_grabber).metadata]_vars

\* the original line indices a results file lists, in order
ListedMatches(bytes) ==
    LET lines == ScanLines(bytes)
    IN  [k \in 1..Len(lines) |-> Unwrap(ParseU64(lines[k]))]

\* grab_search has returned, the content grabber holds metadata, and the
\* search grabber lists the matches of the file the content grabber is
\* assigned to
ServedSearch ==
    /\ returned.call = "grab_search"
    /\ IsSome(search_grabber)
    /\ IsSome(content_grabber)
    /\ IsSome(Unwrap(content_grabber).metadata)
    /\ Unwrap(search_grabber).path = ResultsPath(Unwrap(content_grabber).path)

\* the element grab_search is to return for match number m (from 0) in row
\* `row`
ExpectedRow(m, row) ==
    LET pos == ListedMatches(results_files[Unwrap(search_grabber).path])[m + 1]
    IN  [content |-> ScanLines(FileContent(Unwrap(content_grabber).path))[pos + 1],
         pos     |-> pos,
         row     |-> row]

\* C12: grab_search(i, n) over matches that exist returns n elements; the
\* k-th has row i + k, the original line index of match i + k as pos, and
\* that line of the original file as content.  (Stated for matches that are
\* not on line 0 of the original file.)
C12_GrabSearchReturnsMatches ==
    (/\ ServedSearch
     /\ LET listed == ListedMatches(results_files[Unwrap(search_grabber).path])
        IN  /\ returned.args[1] + returned.args[2] <= Len(listed)
            /\ \A m \in 1..Len(listed) : listed[m] > 0)
    => /\ returned.kind = "Ok"
       /\ returned.rows =
            [k \in 1..returned.args[2] |->
                ExpectedRow(returned.args[1] + k - 1, returned.args[1] + k - 1)]

\* the matching lines of the Search operation at position i of the channel
MatchesOfSearch(i) ==
    SearchMatches(FileContent(op_channel[i].file_path), op_channel[i].filter)

\* C13: the value carried by a SearchUpdated event is the number of matching
\* lines of its Search operation.
C13_SearchUpdatedCountsMatches ==
    \A w \in Workers :
        \A k \in 1..Len(events[w]) :
            events[w][k].type = "SearchUpdated"
                => events[w][k].value = Len(MatchesOfSearch(events[w][k].op))

SearchSent(i) == i <= Len(op_channel) /\ op_channel[i].type = "Search"

\* the most recent Search sent (0: none)
LastSearch ==
    IF \E i \in 1..Len(op_channel) : SearchSent(i)
    THEN CHOOSE i \in 1..Len(op_channel) :
            /\ SearchSent(i)
            /\ \A j \in 1..Len(op_channel) : SearchSent(j) => j <= i
    ELSE 0

\* no worker has finished the most recent Search: its own result is not
\* deposited yet
LastSearchPending ==
    /\ LastSearch # 0
    /\ \A w \in Workers : ~Completed(w, LastSearch)

\* C14: while the most recent search's own result is not deposited,
\* get_search_len returns 0 and grab_search returns empty content.
C14_NoEarlierSearchResultsServed ==
    LastSearchPending
    => /\ returned.call = "get_search_len"
            => returned.kind = "Ok" /\ returned.value = 0
       /\ returned.call = "grab_search"
            => returned.kind = "Ok" /\ returned.rows = <<>>

\* C15: a search() call made while no content grabber is assigned returns
\* NoAssignedContent and changes neither the operation channel, nor the
\* events, nor the grabbers, nor the metadata channels.
C15_SearchWithoutContentChangesNothing ==
    [][(~IsSome(content_grabber) /\ returned'.call = "search")
         => /\ returned'.kind = "NoAssignedContent"
            /\ UNCHANGED <<op_channel, events, content_grabber, search_grabber,
                           content_metadata_channel, search_metadata_channel,
                           workers>>]_vars

\* search() has returned NoAssignedContent
C15_Witness ==
    /\ returned.call = "search"
    /\ returned.kind = "NoAssignedContent"
    /\ ~IsSome(content_grabber)

(***************************************************************************)
(* SpecRestart: the session with start() called again.  start has no guard  *)
(* (session.rs:257-272): every call subscribes a new receiver and spawns a  *)
(* new thread with the callback it was given.                               *)
(***************************************************************************)
\* most start() calls in one run of SpecRestart
MaxRestartWorkers == 2
\* most operations sent in one run of SpecRestart
MaxRestartOps == 2

\* RustSession::start on a session that has been started before
StartAgain ==
    /\ Len(workers) >= MaxWorkers
    /\ Len(workers) < MaxRestartWorkers
    /\ workers' = Append(workers, WorkerSpawned(Len(op_channel)))
    /\ events' = Append(events, <<>>)
    /\ running' = TRUE
    /\ returned' = Ret("start", "Ok", 0)
    /\ UNCHANGED <<content_grabber, search_grabber, op_channel,
                   shutdown_channel, content_metadata_channel,
                   search_metadata_channel, results_files, cancelled>>

\* the operation channel of a run of SpecRestart has room for one more
RestartOpsLeft == Len(op_channel) < MaxRestartOps

NextRestart ==
    \/ Start /\ UNCHANGED grabVars
    \/ StartAgain /\ UNCHANGED grabVars
    \/ RestartOpsLeft /\ Assign /\ UNCHANGED grabVars
    \/ RestartOpsLeft /\ Search /\ UNCHANGED grabVars
    \/ CancelOperations /\ UNCHANGED grabVars
    \/ RestartOpsLeft /\ Stop /\ UNCHANGED grabVars
    \/ Grab /\ UNCHANGED grabVars
    \/ GetStreamLen /\ UNCHANGED grabVars
    \/ GetSearchLen /\ UNCHANGED grabVars
    \/ GrabSearch /\ UNCHANGED grabVars
    \/ \E w \in 1..Len(workers) : WorkerRecv(w) /\ UNCHANGED grabVars
    \/ \E w \in 1..Len(workers) : WorkerBuildMetadata(w) /\ UNCHANGED grabVars
    \/ \E w \in 1..Len(workers) : WorkerExecuteSearch(w) /\ UNCHANGED grabVars
    \/ \E w \in 1..Len(workers) : WorkerDeliverMetadata(w) /\ UNCHANGED grabVars
    \/ \E w \in 1..Len(workers) : WorkerDeliverSearch(w) /\ UNCHANGED grabVars

SpecRestart == Init /\ [][NextRestart]_vars

\* the SessionDestroyed events worker w's callback has received
DestroyedAt(w) ==
    {k \in 1..Len(events[w]) : events[w][k].type = "SessionDestroyed"}

\* C16: a session emits SessionDestroyed at most once, only for an End
\* operation, and it is the last event a callback receives.
C16_SessionDestroyedOnceAndLast ==
    /\ Cardinality({w \in Workers : DestroyedAt(w) # {}}) <= 1
    /\ \A w \in Workers :
          /\ Cardinality(DestroyedAt(w)) <= 1
          /\ \A k \in DestroyedAt(w) :
                /\ k = Len(events[w])
                /\ op_channel[events[w][k].op].type = "End"

EndSent(i) == i <= Len(op_channel) /\ op_channel[i].type = "End"

SessionDestroyedEmitted == \E w \in Workers : DestroyedAt(w) # {}

\* C17: every stop() on a session that has a worker is eventually followed
\* by SessionDestroyed and by the end of every worker loop.
C17_StopEventuallyDestroys ==
    \A i \in 1..MaxOps :
        []((EndSent(i) /\ Workers # {})
              => <>(/\ SessionDestroyedEmitted
                    /\ \A w \in Workers : workers[w].pc = "exited"))

\* the workers whose loop is still running
LiveWorkers == {w \in Workers : workers[w].pc # "exited"}

\* the workers that have received operation i
ReceivedBy(i) ==
    {w \in Workers : \E k \in 1..Len(workers[w].handled) :
                         workers[w].handled[k] = i}

\* C18: a session never has two worker loops running, and no operation is
\* received by two workers.
C18_AtMostOneWorker ==
    /\ Cardinality(LiveWorkers) <= 1
    /\ \A i \in 1..Len(op_channel) : Cardinality(ReceivedBy(i)) <= 1

\* every line of the file ends with a newline
NewlineTerminated(bytes) ==
    /\ NoCarriageReturn(bytes)
    /\ Len(bytes) > 0
    /\ bytes[Len(bytes)] = NL

\* C19: for a file of newline-terminated lines, whatever the number of slots,
\* get_entries(LineRange(0, line_count)) returns exactly line_count elements.
C19_WholeRangeYieldsLineCount ==
    (/\ BuiltCleanly
     /\ FullReads
     /\ NewlineTerminated(content)
     /\ IsSome(entries.result)
     /\ entries.range = LineRange(0, BuilderMetadata(builder).line_count))
    => /\ Unwrap(entries.result).kind = "Ok"
       /\ Len(Unwrap(entries.result).grabbed_elements)
            = BuilderMetadata(builder).line_count

(***************************************************************************)
(* SpecIdentify: identify_slot over every small well-formed slot index      *)
(***************************************************************************)
\* most slots of an index
MaxSlots == 3
\* most lines of one slot
MaxSlotLines == 2
\* most identify_slot calls in one run
MaxLookups == 2

\* the index whose k-th slot holds line_counts[k] lines (one byte per line):
\* byte and line ranges start at 0, are non-empty and contiguous
RECURSIVE ContiguousSlots(_, _)
ContiguousSlots(line_counts, from) ==
    IF line_counts = <<>> THEN <<>>
    ELSE <<Slot(ByteRange(from, from + Head(line_counts)),
                LineRange(from, from + Head(line_counts)))>>
            \o ContiguousSlots(Tail(line_counts), from + Head(line_counts))

RECURSIVE SumOf(_)
SumOf(seq) == IF seq = <<>> THEN 0 ELSE Head(seq) + SumOf(Tail(seq))

ContiguousIndexes ==
    {GrabMetadata(ContiguousSlots(line_counts, 0), SumOf(line_counts)) :
        line_counts \in SeqsUpTo(1..MaxSlotLines, MaxSlots)}

\* line indices asked for: every line of the largest index, and past it
LookupIndices == 0..(MaxSlots * MaxSlotLines + 1)

\* a grabber with no metadata yet, or with any well-formed index
IdentifyInit ==
    /\ FileIdle
    /\ index \in {None} \cup {Some(md) : md \in ContiguousIndexes}
    /\ lookups = <<>>
    /\ RangesIdle
    /\ SessionNew

\* Grabber::identify_slot(line_index)
IdentifySlot ==
    /\ Len(lookups) < MaxLookups
    /\ \E line_index \in LookupIndices :
          lookups' = Append(lookups, [line_index |-> line_index,
                                      slot |-> identify_slot(index, line_index)])
    /\ UNCHANGED <<content, builder, stop_requested, io_fault, entries, holder,
                   index, rangeVars, sessionVars>>

SpecIdentify == IdentifyInit /\ [][IdentifySlot]_vars

\* the slots of the index (none without metadata)
IndexSlots == IF IsSome(index) THEN Unwrap(index).slots ELSE <<>>

IndexLineCount == IF IsSome(index) THEN Unwrap(index).line_count ELSE 0

\* C20: identify_slot(k) returns the one slot whose line range contains k
\* when k < line_count, none when k >= line_count or there are no slots, and
\* the same result when asked again.
C20_IdentifySlotFindsTheSlot ==
    /\ \A c \in 1..Len(lookups) :
          LET k == lookups[c].line_index
              holding == {n \in 1..Len(IndexSlots) :
                             RangeContains(IndexSlots[n].lines, k)}
          IN  IF k < IndexLineCount
              THEN /\ Cardinality(holding) = 1
                   /\ \A n \in holding : lookups[c].slot = Some(IndexSlots[n])
              ELSE lookups[c].slot = None
    /\ \A c, d \in 1..Len(lookups) :
          lookups[c].line_index = lookups[d].line_index
              => lookups[c].slot = lookups[d].slot

\* the same line was looked up twice, in the last of three slots
C20_Witness ==
    /\ Len(IndexSlots) = MaxSlots
    /\ Len(lookups) = 2
    /\ lookups[1].line_index = lookups[2].line_index
    /\ lookups[1].slot = Some(IndexSlots[MaxSlots])

(***************************************************************************)
(* Claims about the built index (SpecGrabber): every file of up to          *)
(* MaxFileLen bytes, every split of it into reads, with and without a       *)
(* failed read                                                              *)
(***************************************************************************)
\* the builder returned Item(GrabMetadata)
ReturnedIndex == builder.outcome = "Item"

ConsecutiveSlotsShareBoundaries(slots) ==
    \A k \in 1..(Len(slots) - 1) :
        /\ slots[k].bytes.end = slots[k + 1].bytes.start
        /\ slots[k].lines.end = slots[k + 1].lines.start

\* C21: in every slot index the builder returns for a non-empty file, each
\* pair of consecutive slots shares its boundaries: the byte range and the
\* line range of slot k end where those of slot k+1 start.
C21_SlotContiguity ==
    (ReturnedIndex /\ content # <<>>)
    => ConsecutiveSlotsShareBoundaries(BuilderMetadata(builder).slots)

\* an index of three slots was returned (short reads included)
C21_Witness ==
    /\ ReturnedIndex
    /\ Len(BuilderMetadata(builder).slots) = 3
    /\ BuilderMetadata(builder).slots[2].lines.end > 2

\* C22: every slot index the builder returns is well-formed: the first slot
\* starts at byte 0 and line 0; every slot has a non-empty byte range no
\* longer than the read buffer (which is no longer than the slot size) and a
\* non-empty line range; line_count is the last slot's lines.end, and 0 when
\* there are no slots.
C22_WellFormedIndex ==
    ReturnedIndex
    => LET md == BuilderMetadata(builder)
           n  == Len(md.slots)
       IN  /\ READ_BUFFER_BYTES <= DEFAULT_SLOT_SIZE
           /\ READ_BUFFER_SIZE <= DEFAULT_SLOT_SIZE
           /\ n > 0 => /\ md.slots[1].bytes.start = 0
                       /\ md.slots[1].lines.start = 0
           /\ \A k \in 1..n :
                 /\ md.slots[k].bytes.start < md.slots[k].bytes.end
                 /\ md.slots[k].bytes.end - md.slots[k].bytes.start
                      <= READ_BUFFER_SIZE
                 /\ md.slots[k].lines.start < md.slots[k].lines.end
           /\ md.line_count = IF n = 0 THEN 0 ELSE md.slots[n].lines.end

\* a returned index whose last slot holds no newline, after a slot that
\* filled the buffer
C22_Witness ==
    /\ ReturnedIndex
    /\ Len(builder.slots) = 2
    /\ builder.slots[1].bytes.end = READ_BUFFER_SIZE
    /\ CountNewlines(SubSeq(content, builder.slots[2].bytes.start + 1,
                            builder.slots[2].bytes.end)) = 0

\* a returned index without slots (the first read failed)
C22_WitnessNoSlots ==
    /\ ReturnedIndex
    /\ builder.slots = <<>>
    /\ BuilderMetadata(builder).line_count = 0

(***************************************************************************)
(* Claims about get_entries on a grabber with and without metadata          *)
(* (SpecGrabber): direct calls on the built index and grabs on the holder   *)
(***************************************************************************)
\* the get_entries calls made so far, on the grabber and through the holder
CallsMade == {c \in {entries, holder.call} : IsSome(c.result)}

\* C23: get_entries(r) fails with InvalidRange whenever r.end <= r.start,
\* with the metadata present or absent, and returns no content then.
C23_EmptyRangeIsInvalidRange ==
    \A c \in CallsMade :
        c.range.end <= c.range.start
        => /\ Unwrap(c.result).kind = "InvalidRange"
           /\ Unwrap(c.result).grabbed_elements = <<>>

\* a grab of zero lines on a holder whose metadata is still absent
C23_Witness ==
    /\ IsSome(holder.call.result)
    /\ holder.call.range.end = holder.call.range.start
    /\ holder.call.range.start = 1
    /\ ~IsSome(holder.metadata)
    /\ Unwrap(holder.call.result).kind = "InvalidRange"

\* an empty and a reversed range on a grabber holding a built index
C23_WitnessWithMetadata ==
    /\ IsSome(entries.result)
    /\ entries.range.end < entries.range.start
    /\ Len(BuilderMetadata(builder).slots) = 2
    /\ Unwrap(entries.result).kind = "InvalidRange"

\* the holder's grabber had no metadata when its grab called get_entries
HolderGrabbedWithoutMetadata ==
    /\ IsSome(holder.call.result)
    /\ ~IsSome(holder.metadata)

\* C24: get_entries(r) with a valid range on a grabber whose metadata is
\* absent fails with a Config error; a grab on the holder before the build
\* has deposited metadata returns an error, not an empty result.
C24_AbsentMetadataIsConfigError ==
    (/\ HolderGrabbedWithoutMetadata
     /\ holder.call.range.start < holder.call.range.end)
    => Unwrap(holder.call.result).kind = "Config"

(***************************************************************************)
(* Claims about cancellation of the builder (SpecGrabber)                   *)
(***************************************************************************)
\* the builder takes a step of its loop
BuilderSteps == builder' # builder

\* C25: once the cancellation signal has fired, the builder performs at most
\* one further buffer read, appends no further slot and returns Stopped,
\* never an Item: every step it takes with the signal fired is its last, is
\* one read, leaves the slots alone and ends in Stopped.
C25_StopsWithinOneRead ==
    [][(stop_requested /\ BuilderSteps)
       => /\ builder'.reads = builder.reads + 1
          /\ builder'.slots = builder.slots
          /\ builder'.outcome = "Stopped"]_vars

\* the same with no failed read after the signal
C25_StopsWithinOneReadUnlessReadFails ==
    [][(stop_requested /\ BuilderSteps /\ ~io_fault')
       => /\ builder'.reads = builder.reads + 1
          /\ builder'.slots = builder.slots
          /\ builder'.outcome = "Stopped"]_vars

\* C26: the signal is checked before the file is read: if it has already
\* fired when the builder starts, the builder returns Stopped without
\* performing any read.
C26_StopCheckedBeforeRead ==
    [][(stop_requested /\ builder.reads = 0 /\ BuilderSteps
          /\ builder'.outcome = "Stopped")
       => builder'.reads = 0]_vars

(***************************************************************************)
(* Claims about failures of the builder (SpecGrabber)                       *)
(***************************************************************************)
\* the bytes the returned index covers
CoveredBytes(md) ==
    IF md.slots = <<>> THEN 0 ELSE md.slots[Len(md.slots)].bytes.end

\* C27: the builder returns Item, Stopped or an I/O failure; when a read
\* fails it returns the failure, never an Item whose index covers only the
\* part of the file read before the failure.
C27_ReadFailureIsNotAnItem ==
    ReturnedIndex
    => /\ ~io_fault
       /\ CoveredBytes(BuilderMetadata(builder)) = Len(content)

(***************************************************************************)
(* Claims about failed operations of the worker (Spec)                      *)
(***************************************************************************)
\* the operations whose metadata build (Assign) or search execution (Search)
\* returned Err in worker w
FailedIn(w) == workers[w].failed

SearchesSent == {i \in 1..Len(op_channel) : SearchSent(i)}

\* C29: get_search_len returns 0 when no search grabber exists and no search
\* result is pending (the call leaves the session without a search grabber),
\* and otherwise the number of matches of the search minus one.
C29_SearchLenIsMatchesMinusOne ==
    returned.call = "get_search_len"
    => /\ returned.kind = "Ok"
       /\ IF ~IsSome(search_grabber)
          THEN returned.value = 0
          ELSE \E i \in SearchesSent :
                  returned.value = Len(MatchesOfSearch(i)) - 1

(***************************************************************************)
(* Claims about empty files (Spec)                                          *)
(***************************************************************************)
\* the assignable files of length zero
EmptyFiles == {p \in AssignablePaths : Len(FileContent(p)) = 0}

\* this step is an assign call naming an empty file
AssignOfEmptyFile ==
    /\ returned'.call = "assign"
    /\ \E p \in EmptyFiles : returned'.path = p.stem

\* C30: constructing a grabber over a zero-length file fails with
\* Config("Cannot grab empty file"); an assign of such a file returns an
\* error, enqueues no Assign operation, causes no callback event and leaves
\* the previously assigned content grabber in place.
C30_EmptyFileIsRefused ==
    [][AssignOfEmptyFile
       => /\ \A p \in EmptyFiles : GrabberLazy(p, "src").kind = "Config"
          /\ returned'.kind = "Process"
          /\ op_channel' = op_channel
          /\ events' = events
          /\ content_grabber' = content_grabber]_vars

\* an assign of the empty file has just returned in a session whose content
\* grabber, assigned before, has received its metadata
C30_Witness ==
    /\ returned.call = "assign"
    /\ returned.path = EmptyFile.stem
    /\ returned.kind = "Process"
    /\ IsSome(content_grabber)
    /\ IsSome(Unwrap(content_grabber).metadata)
    /\ Len(op_channel) = 1

(***************************************************************************)
(* SpecClassify: assign calls over paths of every kind of extension         *)
(***************************************************************************)
ClassifyNext ==
    \E file_path \in ClassifiablePaths :
        AssignFile(file_path) /\ UNCHANGED grabVars

SpecClassify == Init /\ [][ClassifyNext]_vars

\* the spellings of the extension dlt
DltSpellings == {"dlt", "DLT", "Dlt"}

\* the source a path is to get: the domain-binary one for the extension dlt,
\* the text one for every other path
ExpectedFileType(path) ==
    IF IsSome(path.extension) /\ Unwrap(path.extension) \in DltSpellings
    THEN "Dlt" ELSE "Text"

\* C31: the classifier maps the extension dlt to the domain-binary source
\* and every other path (txt, text, an unknown extension, no extension) to
\* the text source; it yields a supported type for every path, and the Assign
\* operation enqueued by assign carries exactly that type.
C31_ClassifierChoosesTheSource ==
    /\ \A p \in ClassifiablePaths \cup AssignablePaths :
          get_supported_file_type(p) = Some(ExpectedFileType(p))
    /\ \A i \in 1..Len(op_channel) :
          op_channel[i].type = "Assign"
          => op_channel[i].source_type
               = ExpectedFileType(op_channel[i].file_path)

\* assigns of an upper-case dlt path, of a path without extension and of a
\* path with an unknown extension have been enqueued
C31_Witness ==
    /\ Len(op_channel) = 3
    /\ op_channel[1].file_path = Path("c", Some("DLT"))
    /\ op_channel[1].source_type = "Dlt"
    /\ op_channel[2].file_path = Path("c", None)
    /\ op_channel[2].source_type = "Text"
    /\ op_channel[3].file_path = Path("c", Some("log"))
    /\ op_channel[3].source_type = "Text"

(***************************************************************************)
(* Claims about the two separators (SpecGrabber)                            *)
(***************************************************************************)
\* the file is a run of non-empty-ended text whose lines are separated by
\* `\r` or by `\r\n`: it starts and ends with a payload byte, holds a `\r`,
\* and every `\n` follows a `\r`
SeparatedByCarriageReturn(bytes) ==
    /\ Len(bytes) > 0
    /\ bytes[1] \in Payload
    /\ bytes[Len(bytes)] \in Payload
    /\ \E i \in 1..Len(bytes) : bytes[i] = CR
    /\ \A i \in 1..Len(bytes) : bytes[i] = NL => (i > 1 /\ bytes[i - 1] = CR)

\* C32: the builder and the read path agree on what a line is for both
\* separators: for a file whose lines are separated by `\r` (or `\r\n`),
\* line_count is the number of elements the read path splits the file into,
\* and get_entries(LineRange(i, i + 1)) returns the i-th such element for
\* every i < line_count.  (Stated for files read in one buffer.)
C32_SeparatorsAgree ==
    (/\ BuiltCleanly
     /\ Len(builder.slots) = 1
     /\ SeparatedByCarriageReturn(content))
    => LET md == BuilderMetadata(builder)
       IN  /\ md.line_count = Len(SplitLines(content))
           /\ (/\ IsSome(entries.result)
               /\ entries.range.end = entries.range.start + 1
               /\ entries.range.start < md.line_count)
              => /\ Unwrap(entries.result).kind = "Ok"
                 /\ Unwrap(entries.result).grabbed_elements
                      = <<SplitLines(content)[entries.range.start + 1]>>

(***************************************************************************)
(* Claims about ranges outside the index (SpecGrabber)                      *)
(***************************************************************************)
\* some slot of the index holds the line
Covered(md, line_index) ==
    \E k \in 1..Len(md.slots) : RangeContains(md.slots[k].lines, line_index)

\* C33: get_entries(r) with a valid range returns empty content, neither an
\* error nor a truncated result, whenever r.start or r.end - 1 is covered by
\* no slot; a range that starts inside the file and ends past line_count
\* yields no elements at all.
C33_UncoveredRangeIsEmpty ==
    (/\ IsSome(entries.result)
     /\ entries.range.start < entries.range.end
     /\ \/ ~Covered(BuilderMetadata(builder), entries.range.start)
        \/ ~Covered(BuilderMetadata(builder), entries.range.end - 1))
    => /\ Unwrap(entries.result).kind = "Ok"
       /\ Unwrap(entries.result).grabbed_elements = <<>>

\* a call on a two-slot index with a range from the first line to one past
\* line_count
C33_Witness ==
    /\ IsSome(entries.result)
    /\ Len(BuilderMetadata(builder).slots) = 2
    /\ entries.range.start = 0
    /\ entries.range.end = BuilderMetadata(builder).line_count + 1
    /\ Unwrap(entries.result).grabbed_elements = <<>>

(***************************************************************************)
(* SpecCoalesce: the range coalescing of grab_search (session.rs:565-591)   *)
(* over every strictly ascending sequence of positions up to MaxPosition    *)
(***************************************************************************)
MaxPosition == 6

RECURSIVE AscendingFrom(_)
\* the strictly ascending sequences of positions from lo to MaxPosition
AscendingFrom(lo) ==
    IF lo > MaxPosition THEN {<<>>}
    ELSE AscendingFrom(lo + 1)
           \cup {<<lo>> \o rest : rest \in AscendingFrom(lo + 1)}

CoalesceInit ==
    /\ FileIdle
    /\ index = None
    /\ lookups = <<>>
    /\ positions \in AscendingFrom(0)
    /\ coalesced = NotCoalesced
    /\ SessionNew

\* the loop over the parsed elements and the push after it; 0 - 1 on u64
\* panics or wraps, as the build has it
Coalesce ==
    /\ coalesced = NotCoalesced
    /\ LET ranges == SearchRanges(positions)
       IN  \E outcome \in IF Underflows(ranges) THEN UnderflowOutcomes
                           ELSE {"Ok"} :
              coalesced' = IF outcome = "Panic"
                           THEN [kind |-> "Panic", ranges |-> <<>>]
                           ELSE [kind |-> "Ok", ranges |-> ranges]
    /\ UNCHANGED <<content, builder, stop_requested, io_fault, entries, holder,
                   lookupVars, positions, sessionVars>>

SpecCoalesce == CoalesceInit /\ [][Coalesce]_vars

\* the positions as a set
PositionSet == {positions[k] : k \in 1..Len(positions)}

\* the maximal runs of consecutive positions, each as the inclusive range of
\* its first and last position shifted by -1
ShiftedMaximalRuns ==
    {[first |-> a - 1, last |-> b - 1] : <<a, b>> \in
        {r \in PositionSet \X PositionSet :
            /\ r[1] <= r[2]
            /\ \A x \in r[1]..r[2] : x \in PositionSet
            /\ (r[1] - 1) \notin PositionSet
            /\ (r[2] + 1) \notin PositionSet}}

C39_RangeBoundsStayInU64 ==
    coalesced # NotCoalesced
    => /\ coalesced.kind = "Ok"
       /\ ~Underflows(coalesced.ranges)

(***************************************************************************)
(* Claims C35..C38: the session across several assigns and searches         *)
(***************************************************************************)
\* the slot indexes a build over the file at `path` can produce
MetadataBuiltFor(path) ==
    LET op == OpAssign(path, "src", 0, Unwrap(get_supported_file_type(path)))
    IN  {Unwrap(res.metadata) :
            res \in {o \in AssignBuildOutcomes(op, FALSE) : o.kind = "Item"}}

\* C35: whenever grab or get_stream_len succeeds, the metadata the content
\* grabber holds was computed for the file that grabber was made over by the
\* most recent successful assign; metadata built for a file assigned earlier
\* is never injected into the grabber of a later assign.
C35_MetadataIsOfTheAssignedFile ==
    (returned.call \in {"grab", "get_stream_len"} /\ returned.kind = "Ok")
    => Unwrap(Unwrap(content_grabber).metadata)
          \in MetadataBuiltFor(Unwrap(content_grabber).path)

\* a worker has finished Search operation i, which had at least one match,
\* and has sent its results index (session.rs:367-372)
SearchDelivered(i) ==
    /\ SearchSent(i)
    /\ MatchesOfSearch(i) # <<>>
    /\ \E w \in Workers :
          /\ Completed(w, i)
          /\ \E k \in 1..Len(events[w]) :
                /\ events[w][k].type = "SearchUpdated"
                /\ events[w][k].op = i

\* the results index the worker builds for Search operation i
ResultsIndexOf(i) ==
    create_metadata_for_file(ResultsFileBytes(MatchesOfSearch(i)))

\* C36: once the worker has finished the most recent Search (one with a
\* match), a get_search_len or grab_search call that returns has taken that
\* search's result: the result is not left in the search metadata channel,
\* and the search grabber holds the index of that search's results.
C36_LatestSearchIsServed ==
    (/\ LastSearch # 0
     /\ SearchDelivered(LastSearch)
     /\ returned.call \in {"get_search_len", "grab_search"})
    => /\ \A k \in 1..Len(search_metadata_channel) :
             search_metadata_channel[k].op # LastSearch
       /\ IsSome(search_grabber)
       /\ Unwrap(search_grabber).metadata = Some(ResultsIndexOf(LastSearch))

\* get_search_len has returned the length of a search grabber, or grab_search
\* has returned rows
ServesSearchResults ==
    \/ /\ returned.call = "get_search_len"
       /\ returned.kind = "Ok"
       /\ IsSome(search_grabber)
    \/ /\ returned.call = "grab_search"
       /\ returned.kind = "Ok"
       /\ returned.rows # <<>>

TerminalEventsOf(w, i) ==
    SelectSeq(EventsOf(w, i),
              LAMBDA e : e.type \in {"OperationDone", "OperationError"})

\* C38: for every Assign or Search a worker has dequeued and finished, its
\* callback has received exactly one terminal event of that operation, an
\* OperationDone or an OperationError carrying the operation's id: never
\* both, never neither, whether the operation succeeded or failed.
C38_ExactlyOneTerminalEvent ==
    \A w \in Workers :
        \A i \in 1..Len(op_channel) :
            (Completed(w, i) /\ op_channel[i].type \in {"Assign", "Search"})
            => /\ Len(TerminalEventsOf(w, i)) = 1
               /\ TerminalEventsOf(w, i)[1].uuid = op_channel[i].operation_id

(***************************************************************************)
(* SpecBuilder: the builder loop alone.  The loop runs in one thread and    *)
(* every `reader.read` returns, with Ok or with Err: an iteration that can  *)
(* be taken is taken.                                                       *)
(***************************************************************************)
BuilderNext ==
    \/ RequestStop
    \/ BuilderRead
    \/ BuilderReadError

SpecBuilder ==
    /\ GrabInit
    /\ [][BuilderNext]_vars
    /\ WF_vars(BuilderRead \/ BuilderReadError)

\* C40: for every file, in a run with no stop request and no failed read the
\* builder terminates and returns Item with slots that cover the whole file
\* (the last slot's bytes.end is the file size), also when reads return
\* fewer bytes than the buffer holds before the end of the file.
C40_BuilderTerminatesCoveringTheFile ==
    [](~stop_requested /\ ~io_fault)
    => <>(/\ builder.outcome = "Item"
          /\ CoveredBytes(BuilderMetadata(builder)) = Len(content))

\* the builder has returned Item after a read that came back short before
\* the end of the file: several slots, the first smaller than the buffer
C40_Witness ==
    /\ BuiltCleanly
    /\ Len(content) = MaxFileLen
    /\ Len(builder.slots) >= 2
    /\ builder.slots[1].bytes.end - builder.slots[1].bytes.start
         < READ_BUFFER_SIZE
    /\ CoveredBytes(BuilderMetadata(builder)) = Len(content)

==============================================================================
